---------------------------- MODULE Spec2Model ----------------------------
(***************************************************************************)
(* A model of rounds/base.py of archery-rounds: the value objects          *)
(* (ScoringRing, TargetFace, SubRound, Round), the RoundClass and the      *)
(* round classification engine (valid_subround_choices, validate_round,    *)
(* belongs_to), and the distance formatting of SubRound.                   *)
(*                                                                         *)
(* Python values are records with a "type" field.  Python's True, False    *)
(* and None are the strings "True", "False" and "None", so that a method   *)
(* that falls off its end (and returns None) is told apart from one that   *)
(* returns False.  A raised exception is the string of its class name.     *)
(* Python lists that are shared by reference live in a heap (lists,        *)
(* vlists), indexed by an object identity.                                 *)
(***************************************************************************)
EXTENDS Integers, Sequences, FiniteSets, TLC

VARIABLES
    call,      \* the last operation: its name, its arguments and its outcome
    lists,     \* heap of the caller's lists of SubRound: identity -> items
    rounds,    \* the constructed Round objects, in construction order
    vlists,    \* heap of lists of validators: identity -> items
    classes    \* the constructed RoundClass objects, in construction order

vars == <<call, lists, rounds, vlists, classes>>

(***************************************************************************)
(* Bounds of the model.                                                    *)
(***************************************************************************)
MaxRings == 2         \* rings of a TargetFace
MaxSubrounds == 3     \* sub-rounds of a Round
MaxPositions == 2     \* positions of a RoundClass
MaxValidators == 2    \* validators of a RoundClass
MaxLists == 1         \* caller lists on the heap
MaxItems == 2         \* items of a caller list on the heap
MaxRounds == 1        \* Round objects
MaxClasses == 2       \* RoundClass objects

(***************************************************************************)
(* Python constants.                                                       *)
(***************************************************************************)
PyTrue == "True"
PyFalse == "False"
PyNone == "None"

PyBool(b) == IF b THEN PyTrue ELSE PyFalse

\* Python truth of a value returned by a validator or a comparison
Truthy(v) == v = PyTrue

NoneValue == [type |-> "NoneType"]
IntValue == [type |-> "int", v |-> 7]

isinstance(v, t) == v.type = t

(***************************************************************************)
(* The enumerations.                                                       *)
(***************************************************************************)
Season == {"OD", "IN"}
ScoringType == {"IM", "ME", "WO", "HM"}
DistanceType == {"M", "Y"}
TargetConfig == {1, 2, 3}

(***************************************************************************)
(* ScoringRing is a namedtuple: equality is tuple equality, field by       *)
(* field.  ratio is kept in tenths.                                        *)
(***************************************************************************)
ScoringRing(label, value, ratio) ==
    [type |-> "ScoringRing", label |-> label, value |-> value, ratio |-> ratio]

ScoringRing_eq(a, b) ==
    /\ a.label = b.label
    /\ a.value = b.value
    /\ a.ratio = b.ratio

\* list.__eq__: same length and pairwise equal items, compared in order
RECURSIVE RingList_eq(_, _)
RingList_eq(xs, ys) ==
    IF Len(xs) # Len(ys) THEN FALSE
    ELSE IF Len(xs) = 0 THEN TRUE
    ELSE /\ ScoringRing_eq(Head(xs), Head(ys))
         /\ RingList_eq(Tail(xs), Tail(ys))

(***************************************************************************)
(* TargetFace.  diameter is kept in centimetres.                           *)
(***************************************************************************)
TargetFace(name, diameter, rings, config) ==
    [type |-> "TargetFace", name |-> name, diameter |-> diameter,
     rings |-> rings, config |-> config]

\* an equality that leaves config out of the comparison
TargetFace_eq_NoConfig(self, other) ==
    IF isinstance(other, "TargetFace")
    THEN PyBool(/\ self.name = other.name
                /\ self.diameter = other.diameter
                /\ RingList_eq(self.rings, other.rings))
    ELSE PyFalse

TargetFace_eq(self, other) ==
    IF isinstance(other, "TargetFace")
    THEN PyBool(/\ self.name = other.name
                /\ self.diameter = other.diameter
                /\ RingList_eq(self.rings, other.rings)
                /\ self.config = other.config)
    ELSE PyFalse

(***************************************************************************)
(* SubRound.  distance is kept in tenths of a metre.                       *)
(***************************************************************************)
SubRound(num_arrows, distance, scoring_type, target_face, distance_type) ==
    [type |-> "SubRound", num_arrows |-> num_arrows, distance |-> distance,
     scoring_type |-> scoring_type, target_face |-> target_face,
     distance_type |-> distance_type]

SubRound_eq(self, other) ==
    IF isinstance(other, "SubRound")
    THEN PyBool(/\ Truthy(TargetFace_eq(self.target_face, other.target_face))
                /\ self.distance = other.distance
                /\ self.num_arrows = other.num_arrows
                /\ self.scoring_type = other.scoring_type
                /\ self.distance_type = other.distance_type)
    ELSE PyFalse

\* list.__eq__ on lists of SubRound
RECURSIVE SubRoundList_eq(_, _)
SubRoundList_eq(xs, ys) ==
    IF Len(xs) # Len(ys) THEN FALSE
    ELSE IF Len(xs) = 0 THEN TRUE
    ELSE /\ Truthy(SubRound_eq(Head(xs), Head(ys)))
         /\ SubRoundList_eq(Tail(xs), Tail(ys))

(***************************************************************************)
(* SubRound.readable_distance.  A float is kept exactly, as its whole part *)
(* and its fractional part in units of 10^-8 (TLC's integers have 32       *)
(* bits).  A str is the sequence of its characters.                        *)
(***************************************************************************)
RECURSIVE Pow10(_)
Pow10(n) == IF n = 0 THEN 1 ELSE 10 * Pow10(n - 1)

\* the number of units in 1: the fractional part has 8 digits
FracUnit == Pow10(8)

Float(whole, frac) == [whole |-> whole, frac |-> frac]

\* the stored distance, a number of tenths of a metre, as a float
distance_float(tenths) ==
    Float(tenths \div 10, (tenths % 10) * (FracUnit \div 10))

\* 1.0936133 = YardsHigh / 10^3 + YardsLow / 10^7
YardsHigh == 1093
YardsLow == 6133

\* metres_to_yards: distance * 1.0936133, for a distance in tenths of a
\* metre; the product is tenths * 10936133 / 10^8.  The float product is
\* the nearest double to it, and for the distances tried here it is never
\* near enough to a halfway case for round to tell the two apart.
metres_to_yards(tenths) ==
    LET low  == tenths * YardsLow
        high == tenths * YardsHigh + (low \div Pow10(4))
    IN  Float(high \div Pow10(4),
              (high % Pow10(4)) * Pow10(4) + (low % Pow10(4)))

\* round(x, ndigits) of a float: the result, in units of 10^-ndigits; a value
\* halfway between two results goes to the even one
float_round(x, ndigits) ==
    LET unit == FracUnit \div Pow10(ndigits)
        q == x.whole * Pow10(ndigits) + (x.frac \div unit)
        r == x.frac % unit
    IN  IF 2 * r > unit \/ (2 * r = unit /\ q % 2 = 1) THEN q + 1 ELSE q

Digit(d) == <<"0", "1", "2", "3", "4", "5", "6", "7", "8", "9">>[d + 1]

\* the decimal digits of a natural number
RECURSIVE Digits(_)
Digits(n) ==
    IF n < 10 THEN <<Digit(n)>> ELSE Append(Digits(n \div 10), Digit(n % 10))

\* the digits of n, padded with zeros on the left to the given width
RECURSIVE Padded(_, _)
Padded(n, width) ==
    IF width = 0 THEN <<>>
    ELSE Append(Padded(n \div 10, width - 1), Digit(n % 10))

\* str.rstrip(c): the string without its trailing characters c
RECURSIVE rstrip(_, _)
rstrip(str, c) ==
    IF Len(str) > 0 /\ str[Len(str)] = c
    THEN rstrip(SubSeq(str, 1, Len(str) - 1), c)
    ELSE str

\* str(x) of the float units / 10^ndigits: the shortest digits that give the
\* float back, with at least one digit after the point
float_str(units, ndigits) ==
    LET whole == Digits(units \div Pow10(ndigits))
        frac  == rstrip(Padded(units % Pow10(ndigits), ndigits), "0")
    IN  whole \o <<".">> \o (IF Len(frac) = 0 THEN <<"0">> ELSE frac)

\* the text of the rounded distance, before any unit is added
rounded_str(self, decimal_places) ==
    IF self.distance_type = "M"
    THEN float_str(float_round(distance_float(self.distance), decimal_places),
                   decimal_places)
    ELSE float_str(float_round(metres_to_yards(self.distance), decimal_places),
                   decimal_places)

unit_str(self) == IF self.distance_type = "M" THEN <<"m">> ELSE <<"y", "d">>

\* "{val}m".format(val=...).rstrip("0").rstrip("."): the unit is part of the
\* string that rstrip is applied to
readable_distance(self, decimal_places) ==
    rstrip(rstrip(rounded_str(self, decimal_places) \o unit_str(self), "0"), ".")

(***************************************************************************)
(* Round, as a value: subrounds holds the items of its list.               *)
(***************************************************************************)
RoundValue(name, season, subrounds) ==
    [type |-> "Round", name |-> name, season |-> season, subrounds |-> subrounds]

\* Round.__eq__ has no return statement after its if: it returns None
Round_eq(self, other) ==
    IF isinstance(other, "Round")
    THEN PyBool(/\ SubRoundList_eq(self.subrounds, other.subrounds)
                /\ self.name = other.name
                /\ self.season = other.season)
    ELSE PyNone

(***************************************************************************)
(* RoundClass, as a value: validators holds the items of its list, each    *)
(* validator being named.  "valid_subround_choices" is the one of the      *)
(* module; "always_true" and "always_false" are validators of a caller.    *)
(***************************************************************************)
RoundClassValue(name, season, subrounds, validators) ==
    [type |-> "RoundClass", name |-> name, season |-> season,
     subrounds |-> subrounds, validators |-> validators]

Validators == {"valid_subround_choices", "always_true", "always_false"}

Exceptions == {"AttributeError", "ValueError"}

\* a in b, for a list b of SubRound: some item of b equals a
SubRound_in(a, b) == \E j \in 1..Len(b) : Truthy(SubRound_eq(a, b[j]))

Min(m, n) == IF m < n THEN m ELSE n

\* zip(xs, ys): the pairs up to the length of the shorter list
zip(xs, ys) == [i \in 1..Min(Len(xs), Len(ys)) |-> <<xs[i], ys[i]>>]

\* reduce(lambda x, y: x and y, bs, True) over Python booleans
RECURSIVE reduce_and(_, _)
reduce_and(x, bs) ==
    IF Len(bs) = 0 THEN x
    ELSE reduce_and(IF Truthy(x) THEN Head(bs) ELSE x, Tail(bs))

\* a validator that accepts a sub-round found at any paired position
valid_subround_choices_Unordered(round_class, rnd) ==
    IF isinstance(rnd, "NoneType") \/ isinstance(round_class, "NoneType")
    THEN "AttributeError"
    ELSE LET n == Min(Len(rnd.subrounds), Len(round_class.subrounds))
         IN  PyBool(\A i \in 1..n : \E k \in 1..n :
                       SubRound_in(rnd.subrounds[i], round_class.subrounds[k]))

\* None has no attribute subrounds: reading it raises AttributeError
valid_subround_choices(round_class, rnd) ==
    IF isinstance(rnd, "NoneType") \/ isinstance(round_class, "NoneType")
    THEN "AttributeError"
    ELSE LET pairs == zip(rnd.subrounds, round_class.subrounds)
         IN  reduce_and(PyTrue,
                 [i \in 1..Len(pairs) |->
                     PyBool(SubRound_in(pairs[i][1], pairs[i][2]))])

\* the call y(self, round) of one validator
CallValidator(y, self, round) ==
    CASE y = "valid_subround_choices" -> valid_subround_choices(self, round)
      [] y = "always_true" -> PyTrue
      [] y = "always_false" -> PyFalse

\* reduce(lambda x, y: x and y(self, round), validators, x): "and" calls y
\* only when x is true, and an exception raised by y ends the fold
RECURSIVE reduce_validators(_, _, _, _)
reduce_validators(x, validators, self, round) ==
    IF x \in Exceptions \/ Len(validators) = 0 THEN x
    ELSE reduce_validators(
             IF Truthy(x) THEN CallValidator(Head(validators), self, round)
             ELSE x,
             Tail(validators), self, round)

\* a fold that keeps the result of the last validator only
validate_round_LastOnly(self, round) ==
    IF Len(self.validators) = 0 THEN PyTrue
    ELSE CallValidator(self.validators[Len(self.validators)], self, round)

validate_round(self, round) ==
    reduce_validators(PyTrue, self.validators, self, round)

\* Round.belongs_to: None has no attribute validate_round
belongs_to(self, round_class) ==
    IF isinstance(round_class, "NoneType") THEN "AttributeError"
    ELSE validate_round(round_class, self)

(***************************************************************************)
(* Round and RoundClass, as objects: subrounds of a Round and validators   *)
(* of a RoundClass hold the identity of a list on the heap, because        *)
(* __init__ stores the list it is given and copies nothing.  The identity  *)
(* 0 stands for None.                                                      *)
(***************************************************************************)
\* a check that rejects None but lets an empty list through
Round_init_raises_NoneOnly(subrounds, heap) == subrounds = 0

\* "not subrounds or len(subrounds) < 1", for the list (or None) given

Round_init_raises(subrounds, heap) ==
    \/ subrounds = 0 \/ Len(heap[subrounds]) = 0
    \/ Len(heap[subrounds]) < 1

Round_init(name, season, subrounds) ==
    [type |-> "Round", name |-> name, season |-> season, subrounds |-> subrounds]

\* the list that is the default of the validators argument, built once,
\* when the def statement of RoundClass.__init__ runs
DefaultValidators == 1

\* what that list holds when it is built
DefaultValidatorItems == <<"valid_subround_choices">>

RoundClass_init(name, season, subrounds, validators) ==
    [type |-> "RoundClass", name |-> name, season |-> season,
     subrounds |-> subrounds, validators |-> validators]

\* an object read through the heap, as a value
RoundOf(r, heap) == RoundValue(r.name, r.season, heap[r.subrounds])

RoundClassOf(c, heap) ==
    RoundClassValue(c.name, c.season, c.subrounds, heap[c.validators])

\* reduce(lambda x, y: x + y.num_arrows, subrounds, x)
RECURSIVE reduce_num_arrows(_, _)
reduce_num_arrows(x, subrounds) ==
    IF Len(subrounds) = 0 THEN x
    ELSE reduce_num_arrows(x + Head(subrounds).num_arrows, Tail(subrounds))

num_arrows(self) == reduce_num_arrows(0, self.subrounds)

distances(self) == [i \in 1..Len(self.subrounds) |-> self.subrounds[i].distance]

readable_distances(self, decimal_places) ==
    [i \in 1..Len(self.subrounds) |->
        readable_distance(self.subrounds[i], decimal_places)]

(***************************************************************************)
(* The values the operations are tried on.                                 *)
(***************************************************************************)
SeqsUpTo(S, n) == UNION {[1..k -> S] : k \in 0..n}

Ring10 == ScoringRing("10", 10, 1)
Ring9 == ScoringRing("9", 9, 2)
RingPool == {Ring10, Ring9}
RingLists == SeqsUpTo(RingPool, MaxRings)

FaceNames == {"80cm 10 zone", "80cm 6 zone"}
Diameters == {80, 40}
TargetFaces ==
    {TargetFace(n, d, r, c) :
        n \in FaceNames, d \in Diameters, r \in RingLists, c \in TargetConfig}

Face10 == TargetFace("80cm 10 zone", 80, <<Ring10, Ring9>>, 1)
Face6 == TargetFace("80cm 6 zone", 80, <<Ring10>>, 1)

\* the sub-rounds A, B, C, D: 50 m and 30 m, each on either face
SubRoundA == SubRound(36, 500, "ME", Face10, "M")
SubRoundB == SubRound(36, 500, "ME", Face6, "M")
SubRoundC == SubRound(36, 300, "ME", Face10, "M")
SubRoundD == SubRound(36, 300, "ME", Face6, "M")
SubRounds == {SubRoundA, SubRoundB, SubRoundC, SubRoundD}

\* the lists a caller may hand to Round: empty ones included
SubRoundLists == SeqsUpTo(SubRounds, MaxSubrounds)

RoundNames == {"WA 1440"}

\* the Round values that construction lets through
RoundValues ==
    {RoundValue(n, s, l) :
        n \in RoundNames, s \in Season, l \in SubRoundLists \ {<<>>}}

\* values of the other types
Foreign(t) ==
    {v \in {NoneValue, IntValue, Face10, SubRoundA,
            RoundValue("WA 1440", "OD", <<SubRoundA>>)} : v.type # t}

NoCall == [op |-> "none"]

HeapInit ==
    /\ lists = <<>>
    /\ rounds = <<>>
    \* the default argument of RoundClass.__init__, built once at definition
    /\ vlists = <<DefaultValidatorItems>>
    /\ classes = <<>>

HeapUnchanged == UNCHANGED <<lists, rounds, vlists, classes>>

(***************************************************************************)
(* SpecEq: the three __eq__ methods, each applied to a pair of values      *)
(* drawn by the initial state.                                             *)
(***************************************************************************)
Pending == "pending"

Request(op, self, other) ==
    [op |-> op, self |-> self, other |-> other, result |-> Pending]

CallTargetFaceEq ==
    /\ call.op = "TargetFace.__eq__" /\ call.result = Pending
    /\ call' = [call EXCEPT !.result = TargetFace_eq(call.self, call.other)]
    /\ HeapUnchanged

CallSubRoundEq ==
    /\ call.op = "SubRound.__eq__" /\ call.result = Pending
    /\ call' = [call EXCEPT !.result = SubRound_eq(call.self, call.other)]
    /\ HeapUnchanged

CallRoundEq ==
    /\ call.op = "Round.__eq__" /\ call.result = Pending
    /\ call' = [call EXCEPT !.result = Round_eq(call.self, call.other)]
    /\ HeapUnchanged

InitEq ==
    /\ \/ \E a \in TargetFaces, b \in TargetFaces \cup Foreign("TargetFace") :
             call = Request("TargetFace.__eq__", a, b)
       \/ \E a \in SubRounds, b \in SubRounds \cup Foreign("SubRound") :
             call = Request("SubRound.__eq__", a, b)
       \/ \E a \in RoundValues, b \in RoundValues \cup Foreign("Round") :
             call = Request("Round.__eq__", a, b)
    /\ HeapInit

NextEq == CallTargetFaceEq \/ CallSubRoundEq \/ CallRoundEq

SpecEq == InitEq /\ [][NextEq]_vars

EqOps == {"TargetFace.__eq__", "SubRound.__eq__", "Round.__eq__"}

\* the items of xs are pairwise different
Distinct(xs) == \A i, j \in 1..Len(xs) : i # j => xs[i] # xs[j]

\* ys lists the items of xs in another order
Reordered(xs, ys) ==
    /\ Len(xs) = Len(ys)
    /\ Distinct(xs)
    /\ {xs[i] : i \in 1..Len(xs)} = {ys[i] : i \in 1..Len(ys)}
    /\ xs # ys

\* C6: two TargetFace values are equal iff they have the same name, diameter
\* and config and ring sequences equal item by item in the same order; a
\* reordered list of distinct rings makes them unequal.
C6_TargetFaceEqStructural ==
    (/\ call.op = "TargetFace.__eq__" /\ call.result # Pending
     /\ call.other.type = "TargetFace") =>
        /\ call.result \in {PyTrue, PyFalse}
        /\ call.result = PyTrue <=>
              /\ call.self.name = call.other.name
              /\ call.self.diameter = call.other.diameter
              /\ call.self.config = call.other.config
              /\ Len(call.self.rings) = Len(call.other.rings)
              /\ \A i \in 1..Len(call.self.rings) :
                    call.self.rings[i] = call.other.rings[i]
        /\ Reordered(call.self.rings, call.other.rings) => call.result = PyFalse

\* C6 witness: two faces that differ only in the order of their two rings
C6_Witness ==
    /\ call.op = "TargetFace.__eq__"
    /\ call.other.type = "TargetFace"
    /\ call.self.name = call.other.name
    /\ call.self.diameter = call.other.diameter
    /\ call.self.config = call.other.config
    /\ call.self.rings = <<Ring10, Ring9>>
    /\ call.other.rings = <<Ring9, Ring10>>
    /\ call.result = PyFalse

\* C7: __eq__ of TargetFace, SubRound and Round, given a value of another
\* type, returns False.
C7_MismatchedTypeIsFalse ==
    (/\ call.op \in EqOps /\ call.result # Pending
     /\ call.other.type # call.self.type) =>
        call.result = PyFalse

(***************************************************************************)
(* SpecValid: the classification engine, applied to a round class and a    *)
(* round drawn by the initial state.  For valid_subround_choices and       *)
(* validate_round, self is the class and other the round; for belongs_to,  *)
(* self is the round and other the class.                                  *)
(***************************************************************************)
\* the lists of acceptable sub-rounds a position of a class may hold
ChoiceLists ==
    {<<>>, <<SubRoundA>>, <<SubRoundC>>, <<SubRoundA, SubRoundB>>,
     <<SubRoundB, SubRoundA>>, <<SubRoundC, SubRoundD>>}

ClassSubrounds == SeqsUpTo(ChoiceLists, MaxPositions)

\* classes with the default validator and any positions
PositionClasses ==
    {RoundClassValue("WA 1440", "OD", p, DefaultValidatorItems) :
        p \in ClassSubrounds}

\* the class of the example, [{A, B}, {C}], with any validators
WA1440Subrounds == << <<SubRoundA, SubRoundB>>, <<SubRoundC>> >>

ValidatorClasses ==
    {RoundClassValue("WA 1440", "OD", WA1440Subrounds, v) :
        v \in SeqsUpTo(Validators, MaxValidators)}

ClsRounds == {RoundValue("WA 1440", "OD", l) : l \in SubRoundLists \ {<<>>}}

CallValidSubroundChoices ==
    /\ call.op = "valid_subround_choices" /\ call.result = Pending
    /\ call' = [call EXCEPT
                  !.result = valid_subround_choices(call.self, call.other)]
    /\ HeapUnchanged

CallValidateRound ==
    /\ call.op = "validate_round" /\ call.result = Pending
    /\ call' = [call EXCEPT !.result = validate_round(call.self, call.other)]
    /\ HeapUnchanged

CallBelongsTo ==
    /\ call.op = "belongs_to" /\ call.result = Pending
    /\ call' = [call EXCEPT !.result = belongs_to(call.self, call.other)]
    /\ HeapUnchanged

InitValid ==
    /\ \/ \E c \in PositionClasses \cup {NoneValue},
             r \in ClsRounds \cup {NoneValue} :
             call = Request("valid_subround_choices", c, r)
       \/ \E c \in ValidatorClasses, r \in ClsRounds \cup {NoneValue} :
             call = Request("validate_round", c, r)
       \/ \E r \in ClsRounds, c \in ValidatorClasses \cup {NoneValue} :
             call = Request("belongs_to", r, c)
    /\ HeapInit

NextValid == CallValidSubroundChoices \/ CallValidateRound \/ CallBelongsTo

SpecValid == InitValid /\ [][NextValid]_vars

\* a call of op on a class and a round (neither is None) has returned
Classified(op) ==
    /\ call.op = op /\ call.result # Pending
    /\ call.self.type = "RoundClass" /\ call.other.type = "Round"

\* the round's sub-round at every paired position is one of the acceptable
\* sub-rounds of the class at that position
PositionsMatch(c, r) ==
    \A i \in 1..Min(Len(r.subrounds), Len(c.subrounds)) :
        \E j \in 1..Len(c.subrounds[i]) : r.subrounds[i] = c.subrounds[i][j]

C2_ValidatorConjunction ==
    Classified("validate_round") =>
        LET c == call.self
            r == call.other
            output(i) == CallValidator(c.validators[i], c, r)
        IN  /\ \A i \in 1..Len(c.validators) : output(i) \in {PyTrue, PyFalse}
            /\ call.result =
                  PyBool(\A i \in 1..Len(c.validators) : output(i) = PyTrue)
            /\ c.validators = <<>> => call.result = PyTrue
            /\ (\E i \in 1..Len(c.validators) : output(i) = PyFalse)
                  => call.result = PyFalse

\* C2 witness: a false validator followed by a true one rejects a round that
\* the default validator accepts
C2_Witness ==
    /\ Classified("validate_round")
    /\ call.self.validators = <<"always_false", "always_true">>
    /\ call.other.subrounds = <<SubRoundA, SubRoundC>>
    /\ call.result = PyFalse

\* the class has an empty list of acceptable sub-rounds at some position
HasEmptyPosition(c) == \E i \in 1..Len(c.subrounds) : c.subrounds[i] = <<>>

\* C4: under the default validator, a round with more sub-rounds than the
\* class has positions, or a class with an empty acceptable list at a
\* position, is classified false, without an error.
C4_BoundaryIsFalse ==
    (/\ \/ Classified("valid_subround_choices")
        \/ /\ Classified("validate_round")
           /\ call.self.validators = DefaultValidatorItems
     /\ \/ Len(call.other.subrounds) > Len(call.self.subrounds)
        \/ HasEmptyPosition(call.self)) =>
        call.result = PyFalse

\* C5: validate_round of a None round, whatever the validators, and
\* belongs_to of a None class raise an error: no boolean is returned.
C5_NoneRaises ==
    (/\ call.op \in {"validate_round", "belongs_to"}
     /\ call.result # Pending
     /\ call.other.type = "NoneType") =>
        call.result \in Exceptions

(***************************************************************************)
(* SpecFmt: readable_distance applied to a SubRound and a number of        *)
(* decimal places drawn by the initial state.                              *)
(***************************************************************************)
MaxTenths == 1000        \* distances up to 100 m, in tenths of a metre
MaxDecimalPlaces == 2

FmtSubRounds ==
    {SubRound(36, d, "ME", Face10, u) : d \in 1..MaxTenths, u \in DistanceType}

CallReadableDistance ==
    /\ call.op = "readable_distance" /\ call.result = Pending
    /\ call' = [call EXCEPT
                  !.result = readable_distance(call.self, call.decimal_places)]
    /\ HeapUnchanged

InitFmt ==
    /\ \E sr \in FmtSubRounds, dp \in 0..MaxDecimalPlaces :
         call = [op |-> "readable_distance", self |-> sr,
                 decimal_places |-> dp, result |-> Pending]
    /\ HeapInit

NextFmt == CallReadableDistance

SpecFmt == InitFmt /\ [][NextFmt]_vars

\* C8: readable_distance rounds, strips trailing fractional zeros, strips a
\* bare trailing point, and only then the unit follows: 70 m renders "70m",
\* and no fractional zero or point stands directly before the unit.
C8_RoundStripThenUnit ==
    (call.op = "readable_distance" /\ call.result # Pending) =>
        LET text == rounded_str(call.self, call.decimal_places)
            unit == unit_str(call.self)
            body == SubSeq(call.result, 1, Len(call.result) - Len(unit))
        IN  /\ call.result = rstrip(rstrip(text, "0"), ".") \o unit
            /\ (call.self.distance = 700 /\ call.self.distance_type = "M")
                  => call.result = <<"7", "0", "m">>
            /\ body[Len(body)] # "."
            /\ (\E k \in 1..Len(body) : body[k] = ".") => body[Len(body)] # "0"

(***************************************************************************)
(* Spec: Round objects and the lists of their callers.  A caller builds a  *)
(* list, hands it to Round, may change it afterwards, and queries the      *)
(* round.                                                                  *)
(***************************************************************************)
HeapItems == SeqsUpTo({SubRoundA, SubRoundC}, MaxItems)

ConstructedNames == {"WA 1440", "York"}

\* the class of the example, with the default validator
WA1440 ==
    RoundClassValue("WA 1440", "OD", WA1440Subrounds, DefaultValidatorItems)

\* lst = [...]
NewList ==
    /\ Len(lists) < MaxLists
    /\ \E items \in HeapItems :
         /\ lists' = Append(lists, items)
         /\ call' = [op |-> "list", items |-> items]
    /\ UNCHANGED <<rounds, vlists, classes>>

\* Round(name, season, subrounds), subrounds being a list of the caller or None
ConstructRound ==
    /\ Len(rounds) < MaxRounds
    /\ \E name \in ConstructedNames, season \in Season, subrounds \in 0..Len(lists) :
         LET given == IF subrounds = 0 THEN <<>> ELSE lists[subrounds]
             args == [op |-> "Round.__init__", name |-> name,
                      season |-> season, subrounds |-> subrounds,
                      given |-> given]
         IN  IF Round_init_raises(subrounds, lists)
             THEN /\ call' = [args EXCEPT !.op = "Round.__init__ raised ValueError"]
                  /\ UNCHANGED rounds
             ELSE /\ call' = args
                  /\ rounds' = Append(rounds, Round_init(name, season, subrounds))
    /\ UNCHANGED <<lists, vlists, classes>>

\* lst.append(x), by the caller that built lst
ListAppend ==
    /\ \E l \in 1..Len(lists), x \in {SubRoundA, SubRoundC} :
         /\ Len(lists[l]) < MaxItems
         /\ lists' = [lists EXCEPT ![l] = Append(@, x)]
         /\ call' = [op |-> "list.append", list |-> l]
    /\ UNCHANGED <<rounds, vlists, classes>>

\* lst.clear(), by the caller that built lst
ListClear ==
    /\ \E l \in 1..Len(lists) :
         /\ lists' = [lists EXCEPT ![l] = <<>>]
         /\ call' = [op |-> "list.clear", list |-> l]
    /\ UNCHANGED <<rounds, vlists, classes>>

QueryNumArrows ==
    /\ \E i \in 1..Len(rounds) :
         call' = [op |-> "num_arrows", round |-> i,
                  result |-> num_arrows(RoundOf(rounds[i], lists))]
    /\ HeapUnchanged

QueryDistances ==
    /\ \E i \in 1..Len(rounds) :
         call' = [op |-> "distances", round |-> i,
                  result |-> distances(RoundOf(rounds[i], lists))]
    /\ HeapUnchanged

\* readable_distances(), with the default of decimal_places
QueryReadableDistances ==
    /\ \E i \in 1..Len(rounds) :
         call' = [op |-> "readable_distances", round |-> i,
                  result |-> readable_distances(RoundOf(rounds[i], lists), 2)]
    /\ HeapUnchanged

QueryBelongsTo ==
    /\ \E i \in 1..Len(rounds) :
         call' = [op |-> "belongs_to", round |-> i,
                  result |-> belongs_to(RoundOf(rounds[i], lists), WA1440)]
    /\ HeapUnchanged

QueryValidateRound ==
    /\ \E i \in 1..Len(rounds) :
         call' = [op |-> "validate_round", round |-> i,
                  result |-> validate_round(WA1440, RoundOf(rounds[i], lists))]
    /\ HeapUnchanged

Init == call = NoCall /\ HeapInit

Next ==
    \/ NewList
    \/ ConstructRound
    \/ ListAppend
    \/ ListClear
    \/ QueryNumArrows
    \/ QueryDistances
    \/ QueryReadableDistances
    \/ QueryBelongsTo
    \/ QueryValidateRound

Spec == Init /\ [][Next]_vars

\* C3: constructing a Round with no sub-rounds fails, whatever the name and
\* the season, and creates no Round; with one or more it succeeds and the
\* new Round holds the given sub-rounds, in the given order.
C3_ConstructRound ==
    [][/\ call'.op = "Round.__init__ raised ValueError" =>
             /\ Len(call'.given) = 0
             /\ rounds' = rounds
       /\ call'.op = "Round.__init__" =>
             /\ Len(call'.given) >= 1
             /\ Len(rounds') = Len(rounds) + 1
             /\ SubSeq(rounds', 1, Len(rounds)) = rounds
             /\ LET new == rounds'[Len(rounds')]
                IN  /\ new.name = call'.name
                    /\ new.season = call'.season
                    /\ lists'[new.subrounds] = call'.given
       /\ rounds' # rounds => call'.op = "Round.__init__"]_vars

\* C3 witness: a construction with an empty list has just failed
C3_Witness ==
    /\ call.op = "Round.__init__ raised ValueError"
    /\ call.subrounds # 0
    /\ lists[call.subrounds] = <<>>
    /\ rounds = <<>>

\* C10: the sub-rounds of a constructed Round stay non-empty and as given:
\* neither a query nor a later change by the caller to the list that was
\* passed to the constructor alters them.
C10_RoundOwnsSubrounds ==
    [][\A i \in 1..Len(rounds) :
          /\ lists'[rounds'[i].subrounds] = lists[rounds[i].subrounds]
          /\ Len(lists'[rounds'[i].subrounds]) >= 1]_vars

(***************************************************************************)
(* SpecClass: RoundClass objects and their lists of validators.  A caller  *)
(* constructs classes, with or without a validators argument, changes the  *)
(* validators list of an instance, and classifies rounds.                  *)
(***************************************************************************)
SampleRounds ==
    {RoundValue("WA 1440", "OD", l) :
        l \in {<<SubRoundA, SubRoundC>>, <<SubRoundC, SubRoundA>>}}

\* RoundClass(name, season, subrounds): validators is the default object
ConstructRoundClassDefault ==
    /\ Len(classes) < MaxClasses
    /\ \E season \in Season :
         /\ classes' = Append(classes,
               RoundClass_init("WA 1440", season, WA1440Subrounds,
                               DefaultValidators))
         /\ call' = [op |-> "RoundClass.__init__", class |-> Len(classes) + 1,
                     default |-> TRUE]
    /\ UNCHANGED <<lists, rounds, vlists>>

\* RoundClass(name, season, subrounds, validators), with a new list
ConstructRoundClassGiven ==
    /\ Len(classes) < MaxClasses
    /\ \E season \in Season, items \in SeqsUpTo(Validators, MaxValidators) :
         /\ vlists' = Append(vlists, items)
         /\ classes' = Append(classes,
               RoundClass_init("WA 1440", season, WA1440Subrounds,
                               Len(vlists) + 1))
         /\ call' = [op |-> "RoundClass.__init__", class |-> Len(classes) + 1,
                     default |-> FALSE]
    /\ UNCHANGED <<lists, rounds>>

\* c.validators.append(v), by a caller
ValidatorsAppend ==
    /\ \E i \in 1..Len(classes), v \in Validators :
         /\ Len(vlists[classes[i].validators]) < MaxValidators
         /\ vlists' = [vlists EXCEPT ![classes[i].validators] = Append(@, v)]
         /\ call' = [op |-> "validators.append", class |-> i]
    /\ UNCHANGED <<lists, rounds, classes>>

\* c.validators.clear(), by a caller
ValidatorsClear ==
    /\ \E i \in 1..Len(classes) :
         /\ vlists' = [vlists EXCEPT ![classes[i].validators] = <<>>]
         /\ call' = [op |-> "validators.clear", class |-> i]
    /\ UNCHANGED <<lists, rounds, classes>>

ClassValidateRound ==
    /\ \E i \in 1..Len(classes), r \in SampleRounds \cup {NoneValue} :
         call' = [op |-> "validate_round", class |-> i, round |-> r,
                  result |-> validate_round(RoundClassOf(classes[i], vlists), r)]
    /\ HeapUnchanged

ClassBelongsTo ==
    /\ \E i \in 0..Len(classes), r \in SampleRounds :
         call' = [op |-> "belongs_to", class |-> i, round |-> r,
                  result |-> belongs_to(r, IF i = 0 THEN NoneValue
                                           ELSE RoundClassOf(classes[i], vlists))]
    /\ HeapUnchanged

InitClass == call = NoCall /\ HeapInit

NextClass ==
    \/ ConstructRoundClassDefault
    \/ ConstructRoundClassGiven
    \/ ValidatorsAppend
    \/ ValidatorsClear
    \/ ClassValidateRound
    \/ ClassBelongsTo

SpecClass == InitClass /\ [][NextClass]_vars

\* C9: every RoundClass constructed without a validators argument has its
\* own default list: a change made to the validators list of one instance
\* leaves the validators and the validate_round results of every other
\* instance constructed without the argument (one that holds the default
\* of __init__) unchanged, and an instance constructed later starts with
\* the default validator alone.
C9_DefaultValidatorsNotShared ==
    [][/\ call'.op \in {"validators.append", "validators.clear"} =>
             \A i \in 1..Len(classes) :
               (i # call'.class /\ classes[i].validators = DefaultValidators) =>
                 /\ vlists'[classes'[i].validators] = vlists[classes[i].validators]
                 /\ \A r \in SampleRounds :
                       validate_round(RoundClassOf(classes'[i], vlists'), r)
                         = validate_round(RoundClassOf(classes[i], vlists), r)
       /\ (call'.op = "RoundClass.__init__" /\ call'.default) =>
             vlists'[classes'[call'.class].validators] = DefaultValidatorItems]_vars

=============================================================================
